---- MODULE Spec2Model ----
(***************************************************************************)
(* Model of the IBC component of the application (app/src/ibc/component.rs) *)
(* : the four lifecycle hooks of `impl Component for IBCComponent` acting   *)
(* on the chain state (the consensus-state table and the client counter).   *)
(***************************************************************************)
EXTENDS Integers, Sequences, FiniteSets, TLC

(* ------------------------------------------------------------------ *)
(* Bounds of the model                                                  *)
(* ------------------------------------------------------------------ *)
\* block heights a header may carry are 0..MaxHeight
MaxHeight == 2
\* the client counter is incremented by registrations up to MaxCounter
MaxCounter == 2

\* sample values of the header fields (byte strings and timestamps)
AppHashes == {<<1>>, <<2, 3>>}
ValidatorHashes == {<<1>>, <<5, 6>>}
Times == {10, 20}
\* sample genesis application states handed to init_chain
AppStates == {"genesis_a", "genesis_b"}

VARIABLES
    consensus_states,   \* chain state: Height -> TendermintConsensusState
    client_counter,     \* chain state: <<>> when never written, else <<n>>
    last_call,          \* the hook invoked last, with its input
    height,             \* result of Height::new in the last begin_block
    panic,              \* message of the panic that ended the process, or NoPanic
    end_epoch_result,   \* value returned by the last end_epoch
    host_pc,            \* host: where it stands in its protocol
    block,              \* host: number of the block being processed (0 before the first)
    block_header        \* host: header of the block being processed

vars == <<consensus_states, client_counter, last_call, height, panic, end_epoch_result,
          host_pc, block, block_header>>

\* the host's own position, which no hook reads or writes
host_vars == <<host_pc, block, block_header>>

NoHeader == [height |-> 0]

NoPanic == "none"
NoResult == "none"
NoHeight == [ok |-> FALSE, err |-> "not constructed"]

(* ------------------------------------------------------------------ *)
(* Values                                                               *)
(* ------------------------------------------------------------------ *)
\* abci::request::BeginBlock.header, the four fields begin_block reads
Headers ==
    [height : 0..MaxHeight, app_hash : AppHashes, time : Times,
     next_validators_hash : ValidatorHashes]

\* let commitment_root: Vec<u8> = header.app_hash.clone().into();
\* the bytes of the hash, one by one, in order
AppHashIntoVec(app_hash) == [i \in 1..Len(app_hash) |-> app_hash[i]]

\* commitment_root.into(): CommitmentRoot wrapping the same bytes
VecIntoCommitmentRoot(bytes) == [i \in 1..Len(bytes) |-> bytes[i]]

\* variant: the two byte-string arguments in each other's place
TendermintConsensusStateNew_swapped(root, timestamp, next_validators_hash) ==
    [root |-> next_validators_hash, timestamp |-> timestamp,
     next_validators_hash |-> root]

\* TendermintConsensusState::new(root, timestamp, next_validators_hash)
TendermintConsensusStateNew(root, timestamp, next_validators_hash) ==
    [root |-> root, timestamp |-> timestamp,
     next_validators_hash |-> next_validators_hash]

\* variant: a revision number other than zero
revision_number_one == 0 + 1

\* let revision_number = 0;
revision_number == 0

\* variant: the height taken one too high
HeightInto_next(h) == h + 1

\* begin_block.header.height.into(): the block height as u64, value kept
HeightInto(h) == h

\* Height::new(revision_number, revision_height): Err(InvalidHeight) when the
\* revision height is zero, else the Height of the two numbers
HeightNew(rev_number, rev_height) ==
    IF rev_height = 0
    THEN [ok |-> FALSE, err |-> "InvalidHeight"]
    ELSE [ok |-> TRUE,
          val |-> [revision_number |-> rev_number, revision_height |-> rev_height]]

\* StateWriteExt::put_penumbra_consensus_state(height, cs): write cs keyed by height
put_penumbra_consensus_state(state, h, cs) ==
    [k \in (DOMAIN state) \cup {h} |-> IF k = h THEN cs ELSE state[k]]

\* StateWriteExt::put_client_counter(ClientCounter(n))
put_client_counter(n) == <<n>>

\* the counter value read back from the chain state (ClientCounter.0)
CounterValue(c) == c[1]

(* ------------------------------------------------------------------ *)
(* Initial state: empty chain state, nothing invoked yet                *)
(* ------------------------------------------------------------------ *)
Init ==
    /\ consensus_states = << >>
    /\ client_counter = << >>
    /\ last_call = [op |-> "none"]
    /\ height = NoHeight
    /\ panic = NoPanic
    /\ end_epoch_result = NoResult
    /\ host_pc = "genesis"
    /\ block = 0
    /\ block_header = NoHeader

(* ------------------------------------------------------------------ *)
(* The hooks                                                            *)
(* ------------------------------------------------------------------ *)
\* variant: the counter seeded with 1 instead of 0
init_chain_one(app_state) ==
    /\ panic = NoPanic
    /\ client_counter' = put_client_counter(1)
    /\ last_call' = [op |-> "init_chain", app_state |-> app_state]
    /\ height' = NoHeight
    /\ end_epoch_result' = NoResult
    /\ UNCHANGED <<consensus_states, panic>>

\* variant: the counter is seeded only when the state holds none
init_chain_if_absent(app_state) ==
    /\ panic = NoPanic
    /\ client_counter' = IF client_counter = << >>
                         THEN put_client_counter(0)
                         ELSE client_counter
    /\ last_call' = [op |-> "init_chain", app_state |-> app_state]
    /\ height' = NoHeight
    /\ end_epoch_result' = NoResult
    /\ UNCHANGED <<consensus_states, panic>>

\* async fn init_chain(state, _app_state)
init_chain(app_state) ==
    /\ panic = NoPanic
    /\ client_counter' = put_client_counter(0)
    /\ last_call' = [op |-> "init_chain", app_state |-> app_state]
    /\ height' = NoHeight
    /\ end_epoch_result' = NoResult
    /\ UNCHANGED <<consensus_states, panic>>

\* variant: the Height error is swallowed (if let Ok(height) = ... { put })
begin_block_swallow(header) ==
    LET commitment_root == AppHashIntoVec(header.app_hash)
        cs == TendermintConsensusStateNew(
                  VecIntoCommitmentRoot(commitment_root),
                  header.time,
                  header.next_validators_hash)
        res == HeightNew(revision_number, HeightInto(header.height))
    IN  /\ panic = NoPanic
        /\ last_call' = [op |-> "begin_block", header |-> header,
                         repeated |-> (last_call.op = "begin_block"
                                        /\ last_call.header = header)]
        /\ height' = res
        /\ end_epoch_result' = NoResult
        /\ IF res.ok
           THEN /\ consensus_states' =
                       put_penumbra_consensus_state(consensus_states, res.val, cs)
                /\ UNCHANGED panic
           ELSE /\ UNCHANGED panic
                /\ UNCHANGED consensus_states
        /\ UNCHANGED client_counter

\* variant: begin_block also writes the client counter, as init_chain does
begin_block_counter(header) ==
    LET commitment_root == AppHashIntoVec(header.app_hash)
        cs == TendermintConsensusStateNew(
                  VecIntoCommitmentRoot(commitment_root),
                  header.time,
                  header.next_validators_hash)
        res == HeightNew(revision_number, HeightInto(header.height))
    IN  /\ panic = NoPanic
        /\ last_call' = [op |-> "begin_block", header |-> header,
                         repeated |-> (last_call.op = "begin_block"
                                        /\ last_call.header = header)]
        /\ height' = res
        /\ end_epoch_result' = NoResult
        /\ IF res.ok
           THEN /\ consensus_states' =
                       put_penumbra_consensus_state(consensus_states, res.val, cs)
                /\ UNCHANGED panic
           ELSE /\ panic' = "block height cannot be zero: " \o res.err
                /\ UNCHANGED consensus_states
        /\ client_counter' = put_client_counter(0)

\* variant: the record is derived but never put into the state
begin_block_no_put(header) ==
    LET commitment_root == AppHashIntoVec(header.app_hash)
        cs == TendermintConsensusStateNew(
                  VecIntoCommitmentRoot(commitment_root),
                  header.time,
                  header.next_validators_hash)
        res == HeightNew(revision_number, HeightInto(header.height))
    IN  /\ panic = NoPanic
        /\ last_call' = [op |-> "begin_block", header |-> header,
                         repeated |-> (last_call.op = "begin_block"
                                        /\ last_call.header = header)]
        /\ height' = res
        /\ end_epoch_result' = NoResult
        /\ IF res.ok
           THEN /\ UNCHANGED consensus_states
                /\ UNCHANGED panic
           ELSE \* .expect("block height cannot be zero") unwinds before the put
                /\ panic' = "block height cannot be zero: " \o res.err
                /\ UNCHANGED consensus_states
        /\ UNCHANGED client_counter

\* variant: a Height that already has a record is rejected with a panic
begin_block_reject(header) ==
    LET commitment_root == AppHashIntoVec(header.app_hash)
        cs == TendermintConsensusStateNew(
                  VecIntoCommitmentRoot(commitment_root),
                  header.time,
                  header.next_validators_hash)
        res == HeightNew(revision_number, HeightInto(header.height))
    IN  /\ panic = NoPanic
        /\ last_call' = [op |-> "begin_block", header |-> header,
                         repeated |-> (last_call.op = "begin_block"
                                        /\ last_call.header = header)]
        /\ height' = res
        /\ end_epoch_result' = NoResult
        /\ IF res.ok
           THEN IF res.val \in DOMAIN consensus_states
                THEN /\ panic' = "consensus state already stored"
                     /\ UNCHANGED consensus_states
                ELSE /\ consensus_states' =
                            put_penumbra_consensus_state(consensus_states, res.val, cs)
                     /\ UNCHANGED panic
           ELSE \* .expect("block height cannot be zero") unwinds before the put
                /\ panic' = "block height cannot be zero: " \o res.err
                /\ UNCHANGED consensus_states
        /\ UNCHANGED client_counter

\* async fn begin_block(state, begin_block)
begin_block(header) ==
    LET commitment_root == AppHashIntoVec(header.app_hash)
        cs == TendermintConsensusStateNew(
                  VecIntoCommitmentRoot(commitment_root),
                  header.time,
                  header.next_validators_hash)
        res == HeightNew(revision_number, HeightInto(header.height))
    IN  /\ panic = NoPanic
        /\ last_call' = [op |-> "begin_block", header |-> header,
                         repeated |-> (last_call.op = "begin_block"
                                        /\ last_call.header = header)]
        /\ height' = res
        /\ end_epoch_result' = NoResult
        /\ IF res.ok
           THEN /\ consensus_states' =
                       put_penumbra_consensus_state(consensus_states, res.val, cs)
                /\ UNCHANGED panic
           ELSE \* .expect("block height cannot be zero") unwinds before the put
                /\ panic' = "block height cannot be zero: " \o res.err
                /\ UNCHANGED consensus_states
        /\ UNCHANGED client_counter

\* async fn end_block(_state, _end_block)
end_block(req_height) ==
    /\ panic = NoPanic
    /\ last_call' = [op |-> "end_block", height |-> req_height]
    /\ height' = NoHeight
    /\ end_epoch_result' = NoResult
    /\ UNCHANGED <<consensus_states, client_counter, panic>>

\* variant: end_epoch reports a failure
end_epoch_err ==
    /\ panic = NoPanic
    /\ last_call' = [op |-> "end_epoch"]
    /\ height' = NoHeight
    /\ end_epoch_result' = "Err"
    /\ UNCHANGED <<consensus_states, client_counter, panic>>

\* async fn end_epoch(_state) -> Result<()>
end_epoch ==
    /\ panic = NoPanic
    /\ last_call' = [op |-> "end_epoch"]
    /\ height' = NoHeight
    /\ end_epoch_result' = "Ok"
    /\ UNCHANGED <<consensus_states, client_counter, panic>>

\* client registration (outside this component): reads the counter and
\* writes it back incremented
register_client ==
    /\ panic = NoPanic
    /\ client_counter # << >>
    /\ CounterValue(client_counter) < MaxCounter
    /\ client_counter' = put_client_counter(CounterValue(client_counter) + 1)
    /\ last_call' = [op |-> "register_client"]
    /\ height' = NoHeight
    /\ end_epoch_result' = NoResult
    /\ UNCHANGED <<consensus_states, panic>>

\* the hooks invoked in any order, with any input
InitChain ==
    /\ \E app_state \in AppStates : init_chain(app_state)
    /\ UNCHANGED host_vars
BeginBlock ==
    /\ \E header \in Headers : begin_block(header)
    /\ UNCHANGED host_vars
EndBlock ==
    /\ \E h \in 0..MaxHeight : end_block(h)
    /\ UNCHANGED host_vars
EndEpoch ==
    /\ end_epoch
    /\ UNCHANGED host_vars
RegisterClient ==
    /\ register_client
    /\ UNCHANGED host_vars

Next ==
    \/ InitChain
    \/ BeginBlock
    \/ EndBlock
    \/ EndEpoch
    \/ RegisterClient

Spec == Init /\ [][Next]_vars

(* ------------------------------------------------------------------ *)
(* The host following its protocol: init_chain once, then for each      *)
(* block in order begin_block, (transactions,) end_block, and end_epoch *)
(* at an epoch boundary                                                 *)
(* ------------------------------------------------------------------ *)
HostInitChain ==
    /\ host_pc = "genesis"
    /\ \E app_state \in AppStates : init_chain(app_state)
    /\ host_pc' = "block_start"
    /\ UNCHANGED <<block, block_header>>

HostBeginBlock ==
    /\ host_pc = "block_start"
    /\ block < MaxHeight
    /\ \E header \in Headers :
            /\ header.height = block + 1
            /\ begin_block(header)
            /\ block_header' = header
    /\ block' = block + 1
    /\ host_pc' = "in_block"

\* a transaction of the block registers a client
HostRegisterClient ==
    /\ host_pc = "in_block"
    /\ register_client
    /\ UNCHANGED host_vars

HostEndBlock ==
    /\ host_pc = "in_block"
    /\ end_block(block)
    /\ \E epoch_boundary \in BOOLEAN :
            host_pc' = IF epoch_boundary THEN "epoch_end" ELSE "block_start"
    /\ UNCHANGED <<block, block_header>>

HostEndEpoch ==
    /\ host_pc = "epoch_end"
    /\ end_epoch
    /\ host_pc' = "block_start"
    /\ UNCHANGED <<block, block_header>>

HostNext ==
    \/ HostInitChain
    \/ HostBeginBlock
    \/ HostRegisterClient
    \/ HostEndBlock
    \/ HostEndEpoch

HostSpec == Init /\ [][HostNext]_vars

(* ------------------------------------------------------------------ *)
(* Properties                                                           *)
(* ------------------------------------------------------------------ *)
\* the store key begin_block uses for block height h
KeyOf(h) == [revision_number |-> 0, revision_height |-> h]

\* the step just taken was the hook `op`
Called(op) == last_call'.op = op

\* the counter did not go down from c to d (a counter never written is below all)
CounterLeq(c, d) == c = << >> \/ (d # << >> /\ CounterValue(c) <= CounterValue(d))

\* every entry of store s is still in store t, unchanged
Preserved(s, t) == \A k \in DOMAIN s : k \in DOMAIN t /\ t[k] = s[k]

\* C1: after begin_block with a header of height h > 0, the store holds at
\* Height{0, h} a record with exactly three fields: the header's app_hash as
\* root, the header's time and the header's next_validators_hash.
C1_StoredRecordIsHeader ==
    (last_call.op = "begin_block" /\ last_call.header.height > 0) =>
        /\ KeyOf(last_call.header.height) \in DOMAIN consensus_states
        /\ LET rec == consensus_states[KeyOf(last_call.header.height)]
           IN  /\ DOMAIN rec = {"root", "timestamp", "next_validators_hash"}
               /\ rec.root = last_call.header.app_hash
               /\ rec.timestamp = last_call.header.time
               /\ rec.next_validators_hash = last_call.header.next_validators_hash

\* C1 witness: a block of height > 0 was just processed whose app_hash has two
\* bytes and differs from its next_validators_hash
C1_Witness ==
    /\ last_call.op = "begin_block"
    /\ last_call.header.height > 0
    /\ Len(last_call.header.app_hash) = 2
    /\ last_call.header.app_hash # last_call.header.next_validators_hash
    /\ KeyOf(last_call.header.height) \in DOMAIN consensus_states

\* C2 (as claimed): append-only store, no step of any hook changes or removes
\* a record already written at a Height.
C2_AppendOnly == [][Preserved(consensus_states, consensus_states')]_vars

\* C3: begin_block with a header of height 0 ends in a panic raised by the
\* Height construction (InvalidHeight) and writes nothing: store and counter
\* are as before the call.
C3_ZeroHeightIsFatal ==
    [][(Called("begin_block") /\ last_call'.header.height = 0) =>
            /\ panic' # NoPanic
            /\ ~height'.ok
            /\ height'.err = "InvalidHeight"
            /\ consensus_states' = consensus_states
            /\ client_counter' = client_counter]_vars

\* C3 witness: the process has panicked on a zero-height header while the
\* store and the counter both held data
C3_Witness ==
    /\ panic # NoPanic
    /\ last_call.op = "begin_block"
    /\ last_call.header.height = 0
    /\ consensus_states # << >>
    /\ client_counter # << >>

\* C4 (as claimed): every write of begin_block goes to the height that follows
\* the greatest height written so far, so heights are written in strictly
\* increasing order with none skipped.
C4_WritesConsecutive ==
    [][(Called("begin_block") /\ height'.ok /\ consensus_states # << >>) =>
            \E k \in DOMAIN consensus_states :
                /\ \A j \in DOMAIN consensus_states :
                        j.revision_height <= k.revision_height
                /\ height'.val.revision_height = k.revision_height + 1]_vars

\* C5 (as claimed): a begin_block whose header carries a height already
\* written, with a different record, either leaves the first record in place
\* or signals an error.
C5_NoSilentOverwrite ==
    [][(/\ Called("begin_block")
        /\ height'.ok
        /\ height'.val \in DOMAIN consensus_states) =>
            \/ consensus_states'[height'.val] = consensus_states[height'.val]
            \/ panic' # NoPanic]_vars

\* C6: a successful begin_block for height h changes only the entry at
\* Height{0, h}; every other entry and the client counter are as before.
C6_BeginBlockFrame ==
    [][(Called("begin_block") /\ height'.ok) =>
            /\ DOMAIN consensus_states' =
                    DOMAIN consensus_states \cup {KeyOf(last_call'.header.height)}
            /\ \A k \in DOMAIN consensus_states :
                    k # KeyOf(last_call'.header.height) =>
                        consensus_states'[k] = consensus_states[k]
            /\ client_counter' = client_counter]_vars

\* C6 witness: block 2 was just written while block 1's record and a counter
\* above zero are in the chain state
C6_Witness ==
    /\ last_call.op = "begin_block"
    /\ last_call.header.height = 2
    /\ DOMAIN consensus_states = {KeyOf(1), KeyOf(2)}
    /\ client_counter # << >>
    /\ CounterValue(client_counter) > 0

\* C7: right after init_chain, whatever the genesis state, the client counter
\* reads 0.
C7_InitChainCounterZero ==
    last_call.op = "init_chain" =>
        (client_counter # << >> /\ CounterValue(client_counter) = 0)

\* C7 witness: init_chain has just run with the second genesis state on a
\* chain state that already holds consensus states
C7_Witness ==
    /\ last_call.op = "init_chain"
    /\ last_call.app_state = "genesis_b"
    /\ consensus_states # << >>

\* C8 (as claimed): the client counter never decreases, over any sequence of
\* hook invocations and client registrations.
C8_CounterNeverDecreases == [][CounterLeq(client_counter, client_counter')]_vars

\* C8 (amended): the client counter never decreases over begin_block,
\* end_block and end_epoch invocations and client registrations; only an
\* invocation of init_chain can lower it.
C8_CounterDecreasesOnlyByInitChain ==
    [][~Called("init_chain") => CounterLeq(client_counter, client_counter')]_vars

\* C8 witness: a block was processed after the counter had been raised to its
\* greatest value by registrations
C8_Witness ==
    /\ last_call.op = "begin_block"
    /\ height.ok
    /\ client_counter # << >>
    /\ CounterValue(client_counter) = MaxCounter

\* C9: end_block and end_epoch leave the store and the counter unchanged,
\* whatever the state and the input, and end_epoch returns Ok.
C9_EndHooksAreNoOps ==
    [][(Called("end_block") \/ Called("end_epoch")) =>
            /\ consensus_states' = consensus_states
            /\ client_counter' = client_counter
            /\ panic' = NoPanic
            /\ (Called("end_epoch") => end_epoch_result' = "Ok")]_vars

\* C9 witness: end_epoch has just returned on a chain state holding a record
\* and a counter
C9_Witness ==
    /\ last_call.op = "end_epoch"
    /\ end_epoch_result = "Ok"
    /\ consensus_states # << >>
    /\ client_counter # << >>

\* C10: the Height begin_block constructs from a header of height h > 0 is
\* Ok with revision_number 0 and revision_height h; from a header of height 0
\* the construction fails with InvalidHeight.
C10_HeightConstruction ==
    last_call.op = "begin_block" =>
        IF last_call.header.height > 0
        THEN /\ height.ok
             /\ DOMAIN height.val = {"revision_number", "revision_height"}
             /\ height.val.revision_number = 0
             /\ height.val.revision_height = last_call.header.height
        ELSE /\ ~height.ok
             /\ height.err = "InvalidHeight"

\* C10 witness: a Height was constructed for the greatest block height
C10_Witness ==
    /\ last_call.op = "begin_block"
    /\ last_call.header.height = MaxHeight
    /\ height.ok

\* C11: every key of the consensus-state store has revision_number 0 and a
\* revision_height greater than 0.
C11_KeysAreRevisionZeroPositive ==
    \A k \in DOMAIN consensus_states :
        /\ k.revision_number = 0
        /\ k.revision_height > 0

\* C11 witness: the store holds a record for every height a header can carry,
\* and a zero-height header has been refused
C11_Witness ==
    /\ Cardinality(DOMAIN consensus_states) = MaxHeight
    /\ panic # NoPanic

\* the record begin_block derives from header hd, field by field
IsRecordOf(rec, hd) ==
    /\ DOMAIN rec = {"root", "timestamp", "next_validators_hash"}
    /\ rec.root = hd.app_hash
    /\ rec.timestamp = hd.time
    /\ rec.next_validators_hash = hd.next_validators_hash

\* C13: when the host follows its protocol, the store holds records at
\* exactly the heights 1..n of the blocks begun so far, and the store changes
\* only in the step that begins a block, which adds exactly one entry, at
\* that block's height.
C13_OneEntryPerBlock ==
    [][/\ DOMAIN consensus_states' = {KeyOf(i) : i \in 1..block'}
       /\ (consensus_states' # consensus_states =>
              /\ Called("begin_block")
              /\ block' = block + 1
              /\ KeyOf(block') \notin DOMAIN consensus_states
              /\ DOMAIN consensus_states' =
                     DOMAIN consensus_states \cup {KeyOf(block')}
              /\ Preserved(consensus_states, consensus_states'))]_vars

\* C13 witness: block MaxHeight has ended after an epoch end, with a record at
\* every height 1..MaxHeight
C13_Witness ==
    /\ host_pc = "block_start"
    /\ last_call.op = "end_epoch"
    /\ block = MaxHeight
    /\ DOMAIN consensus_states = {KeyOf(i) : i \in 1..MaxHeight}

\* C14: when the host follows its protocol, at every invocation of end_block
\* or end_epoch for block H the store already holds, at Height{0, H}, the
\* record derived from block H's header, and the invocation leaves the store
\* as it was.
C14_CapturedAtBlockStart ==
    [][(Called("end_block") \/ Called("end_epoch")) =>
            /\ block > 0
            /\ block_header.height = block
            /\ KeyOf(block) \in DOMAIN consensus_states
            /\ IsRecordOf(consensus_states[KeyOf(block)], block_header)
            /\ consensus_states' = consensus_states]_vars

\* C14 witness: end_epoch has run for block 2, whose record is in the store
C14_Witness ==
    /\ last_call.op = "end_epoch"
    /\ block = 2
    /\ block_header.height = 2
    /\ KeyOf(2) \in DOMAIN consensus_states
    /\ IsRecordOf(consensus_states[KeyOf(2)], block_header)

\* C15: init_chain sets the counter to 0 from any state, leaves the store
\* unchanged and raises nothing; invoked right after an init_chain it leaves
\* the chain state as the first invocation left it.
C15_InitChainOnlyCounter ==
    [][Called("init_chain") =>
            /\ client_counter' = put_client_counter(0)
            /\ consensus_states' = consensus_states
            /\ panic' = panic
            /\ (last_call.op = "init_chain" =>
                    client_counter' = client_counter)]_vars

\* C15 witness: init_chain has run on a chain state that holds a record at
\* every height
C15_Witness ==
    /\ last_call.op = "init_chain"
    /\ last_call.app_state = "genesis_a"
    /\ Cardinality(DOMAIN consensus_states) = MaxHeight
    /\ client_counter = put_client_counter(0)

\* C16: a begin_block that repeats the header (height > 0) of the begin_block
\* just before it leaves store and counter as they were and does not panic.
C16_BeginBlockIdempotent ==
    [][(/\ Called("begin_block")
        /\ last_call'.repeated
        /\ last_call'.header.height > 0) =>
            /\ consensus_states' = consensus_states
            /\ client_counter' = client_counter
            /\ panic' = NoPanic
            /\ height'.ok]_vars

\* C16 witness: a header of height > 0 has been processed twice in a row
C16_Witness ==
    /\ last_call.op = "begin_block"
    /\ last_call.repeated
    /\ last_call.header.height > 0
    /\ panic = NoPanic
    /\ client_counter # << >>

====
